---- MODULE Spec2Model ----
(***************************************************************************)
(* The listing service of src/main.py and the Vehicle schema of            *)
(* src/schemas.py: POST /vehicles (create_vehicle) and GET /vehicles       *)
(* (list_vehicles) against the uploads directory and the "vehicle"         *)
(* collection of the document store.                                       *)
(*                                                                         *)
(* Text that the code inspects character by character (client file names,  *)
(* generated file names, public paths) is a sequence of symbols; other     *)
(* text is a string.  A price is a number of hundredths (-1 is -0.01).     *)
(* uuid4() is modelled as a source of tokens that never repeats within the *)
(* process lifetime (the collision probability of 122 random bits is not   *)
(* modelled).  The storage adapter (database.py) is not part of the        *)
(* sources; create_document and get_documents follow its written contract. *)
(***************************************************************************)
EXTENDS Integers, Sequences, FiniteSets, TLC

VARIABLES
    pc,          \* pc[r]: position of create-listing request r in create_vehicle
    req,         \* req[r]: the form fields and attachments of request r
    image_urls,  \* image_urls[r]: the local list built at main.py:104-114
    vehicle,     \* vehicle[r]: the result of Vehicle(...) at main.py:118
    resp,        \* resp[r]: how request r ended
    opened,      \* opened[r]: the destination names request r has opened (history)
    uuids,       \* number of uuid4() tokens issued so far
    files,       \* the uploads directory: name -> [status, opens]
    store,       \* the "vehicle" collection, in insertion order
    owner,       \* owner[i]: the request that inserted store[i] (history)
    listResp     \* the response of the latest list_vehicles call

vars == <<pc, req, image_urls, vehicle, resp, opened, uuids, files, store, owner, listResp>>

----------------------------------------------------------------------------
(* Bounds *)

NumRequests == 2
MaxImages == 2
MaxRaw == 2
MaxAbsent == 1

Requests == 1..NumRequests

----------------------------------------------------------------------------
(* Values *)

\* Python's None: a token no conversion of the model produces.
None == "<None>"

YearMin == 1900
YearMax == 2100
PriceMin == 0

Listing(make, model, year, price, description) ==
    [make |-> make, model |-> model, year |-> year, price |-> price,
     description |-> description]

Makes == {"", "Toyota"}
Models == {"", "Corolla"}
Years == {YearMin - 1, YearMin, 2020, YearMax, YearMax + 1}
Prices == {PriceMin - 1, PriceMin, 1500000}
Descriptions == {None, "clean title"}

\* Every combination of the form fields (main.py:96-100).
CandidateListings ==
    {Listing(mk, md, y, p, d) : mk \in Makes, md \in Models, y \in Years,
                                p \in Prices, d \in Descriptions}

\* The form fields the concurrent requests submit.
SubmittedListings ==
    { Listing("Toyota", "Corolla", 2020, 1500000, "clean title"),
      Listing("", "Corolla", YearMin, PriceMin, None),
      Listing("Toyota", "Corolla", YearMax + 1, PriceMin - 1, None) }

\* Client file names of attachments (img.filename); <<>> is a missing name.
Filenames ==
    { <<>>, <<"a", ".", "png">>, <<"a", ".", "b", "/", ".", "c">> }

RECURSIVE SeqsUpTo(_, _)
SeqsUpTo(S, n) ==
    IF n = 0 THEN {<<>>}
    ELSE LET shorter == SeqsUpTo(S, n - 1)
         IN  shorter \cup {Append(s, x) : s \in {t \in shorter : Len(t) = n - 1}, x \in S}

----------------------------------------------------------------------------
(* schemas.py *)

\* VehicleErrors with gt/lt written for ge/le.
VehicleErrors_exclusive(f) ==
    (IF f.year > YearMin /\ f.year < YearMax THEN {} ELSE {"year"})
    \cup (IF f.price > PriceMin THEN {} ELSE {"price"})

\* The fields of a candidate that violate a Field constraint of Vehicle.
VehicleErrors(f) ==
    (IF f.year >= YearMin /\ f.year <= YearMax THEN {} ELSE {"year"})
    \cup (IF f.price >= PriceMin THEN {} ELSE {"price"})

\* Vehicle(make=..., ..., image_urls=...): the validated record, or the
\* ValidationError pydantic raises.
Vehicle(f, urls) ==
    IF VehicleErrors(f) = {}
    THEN [ok |-> TRUE,
          value |-> [make |-> f.make, model |-> f.model, year |-> f.year,
                     price |-> f.price, description |-> f.description,
                     image_urls |-> urls]]
    ELSE [ok |-> FALSE, errors |-> VehicleErrors(f)]

NotBuilt == [ok |-> FALSE, errors |-> {}]

----------------------------------------------------------------------------
(* Responses *)

Pending == [kind |-> "pending"]
Ok(body) == [kind |-> "response", status |-> 200, body |-> body]
HTTPException(status_code, detail) ==
    [kind |-> "HTTPException", status |-> status_code, detail |-> detail]
\* An exception that leaves the handler without being turned into an HTTPException.
Escaped(exc) == [kind |-> "escaped", exception |-> exc]

----------------------------------------------------------------------------
(* main.py: image names *)

\* uuid4().hex of the n-th token.
uuid4hex(n) == "u" \o ToString(n)

\* p.rfind(c), 1-based; 0 when c does not occur.
rfind(p, c) ==
    LET at == {i \in 1..Len(p) : p[i] = c}
    IN  IF at = {} THEN 0 ELSE CHOOSE i \in at : \A j \in at : j <= i

\* os.path.splitext(p)[1]: the suffix from the last dot, unless that dot is
\* before the last separator or only dots precede it in the last component.
splitext(p) ==
    LET sepIndex == rfind(p, "/")
        dotIndex == rfind(p, ".")
    IN  IF dotIndex > sepIndex
           /\ \E k \in (sepIndex + 1)..(dotIndex - 1) : p[k] # "."
        THEN SubSeq(p, dotIndex, Len(p))
        ELSE <<>>

\* main.py:107: img.filename or f"image-{uuid4().hex}"
filename(img, n) == IF img # <<>> THEN img ELSE <<"image-", uuid4hex(n + 1)>>
\* uuid4() calls made by main.py:107
uuidsForFilename(img) == IF img # <<>> THEN 0 ELSE 1

\* main.py:108: os.path.splitext(filename)[1] or ".jpg"
ext(fname) == IF splitext(fname) # <<>> THEN splitext(fname) ELSE <<".", "jpg">>

\* safe_name that keeps the client's file name.
safe_name_client(img, n) == filename(img, n)

\* main.py:109: f"{uuid4().hex}{ext}", n tokens having been issued before
safe_name(img, n) ==
    <<uuid4hex(n + uuidsForFilename(img) + 1)>> \o ext(filename(img, n))

\* main.py:114: f"/uploads/{safe_name}"
public_url(name) == <<"/uploads/">> \o name

----------------------------------------------------------------------------
(* The storage adapter (database.py, not among the sources) *)

\* The text form of the n-th identifier the store generates.
str_oid(n) == "oid" \o ToString(n)

\* The document create_document("vehicle", record) inserts: the record's
\* fields under a store-generated identifier.
create_document(record, oid) == ("_id" :> oid) @@ record

\* get_documents("vehicle", {}, None): every document, in store order.
get_documents(coll) == coll

----------------------------------------------------------------------------
(* main.py: serialization *)

\* doc.get(key, default)
get(doc, key, default) == IF key \in DOMAIN doc THEN doc[key] ELSE default

\* serialize_vehicle reading the identifier under "id".
serialize_vehicle_wrong_id(doc) ==
    [id |-> get(doc, "id", None),
     make |-> get(doc, "make", None),
     model |-> get(doc, "model", None),
     year |-> get(doc, "year", None),
     price |-> get(doc, "price", None),
     description |-> get(doc, "description", None),
     image_urls |-> get(doc, "image_urls", <<>>),
     created_at |-> get(doc, "created_at", None)]

\* serialize_vehicle written as {"id": ..., **doc} without the "_id" key.
serialize_vehicle_spread(doc) ==
    ("id" :> (IF "_id" \in DOMAIN doc THEN str_oid(doc["_id"]) ELSE None))
    @@ [k \in DOMAIN doc \ {"_id"} |-> doc[k]]

\* main.py:72-82.  A store-generated identifier is always truthy, so the
\* test at line 74 is a test of presence.
serialize_vehicle(doc) ==
    [id |-> IF "_id" \in DOMAIN doc THEN str_oid(doc["_id"]) ELSE None,
     make |-> get(doc, "make", None),
     model |-> get(doc, "model", None),
     year |-> get(doc, "year", None),
     price |-> get(doc, "price", None),
     description |-> get(doc, "description", None),
     image_urls |-> get(doc, "image_urls", <<>>),
     created_at |-> get(doc, "created_at", None)]

----------------------------------------------------------------------------
(* main.py: the handlers *)

NoRequest == [fields |-> Listing("", "", 0, 0, None), images |-> <<>>]

Init ==
    /\ pc = [r \in Requests |-> "idle"]
    /\ req = [r \in Requests |-> NoRequest]
    /\ image_urls = [r \in Requests |-> <<>>]
    /\ vehicle = [r \in Requests |-> NotBuilt]
    /\ resp = [r \in Requests |-> Pending]
    /\ opened = [r \in Requests |-> <<>>]
    /\ uuids = 0
    /\ files = << >>
    /\ store = <<>>
    /\ owner = <<>>
    /\ listResp = Pending

\* A POST /vehicles request enters create_vehicle (main.py:95-105).
Begin(r) ==
    /\ pc[r] = "idle"
    /\ \E f \in SubmittedListings, imgs \in SeqsUpTo(Filenames, MaxImages) :
         /\ req' = [req EXCEPT ![r] = [fields |-> f, images |-> imgs]]
         /\ pc' = [pc EXCEPT ![r] = IF imgs # <<>> THEN "save" ELSE "validate"]
    /\ UNCHANGED <<image_urls, vehicle, resp, opened, uuids, files, store, owner, listResp>>

\* open(dest_path, "wb") on the uploads directory: creates or truncates the
\* file; bytes names the attachment whose bytes are about to be copied.
open_wb(dir, name, bytes) ==
    (name :> [status |-> "partial", content |-> bytes,
              opens |-> IF name \in DOMAIN dir THEN dir[name].opens + 1 ELSE 1]) @@ dir

\* shutil.copyfileobj ran to the end and the file was closed.
copied(dir, name) == (name :> [dir[name] EXCEPT !.status = "full"]) @@ dir

\* append_url written as image_urls.insert(0, ...).
append_url_front(urls, url) == <<url>> \o urls

\* main.py:114: image_urls.append(...)
append_url(urls, url) == Append(urls, url)

\* SaveFails that deletes the files the request wrote before the failure.
SaveFails_rollback(r, name, dirAfter, msg) ==
    /\ files' = [n \in DOMAIN dirAfter \ ({name} \cup {opened[r][j] : j \in 1..Len(opened[r])})
                    |-> dirAfter[n]]
    /\ resp' = [resp EXCEPT ![r] = HTTPException(500, "Failed to save image: " \o msg)]
    /\ pc' = [pc EXCEPT ![r] = "done"]
    /\ UNCHANGED image_urls

\* SaveFails that ignores the failure and goes on with the next attachment.
SaveFails_swallow(r, name, dirAfter, msg) ==
    /\ files' = dirAfter
    /\ image_urls' = [image_urls EXCEPT ![r] = Append(@, public_url(name))]
    /\ pc' = [pc EXCEPT ![r] = IF Len(opened[r]) + 1 = Len(req[r].images)
                                THEN "validate" ELSE "save"]
    /\ UNCHANGED resp

\* main.py:115-116: the write of name failed; dirAfter is the directory it left.
SaveFails(r, name, dirAfter, msg) ==
    /\ files' = dirAfter
    /\ resp' = [resp EXCEPT ![r] = HTTPException(500, "Failed to save image: " \o msg)]
    /\ pc' = [pc EXCEPT ![r] = "done"]
    /\ UNCHANGED image_urls

\* One pass of the loop body, main.py:106-116, for the next attachment.
SaveImage(r) ==
    /\ pc[r] = "save"
    /\ LET i == Len(opened[r]) + 1
           img == req[r].images[i]
           name == safe_name(img, uuids)
       IN  /\ uuids' = uuids + uuidsForFilename(img) + 1
           /\ opened' = [opened EXCEPT ![r] = Append(@, name)]
           /\ \/ \* the file is written
                 /\ files' = copied(open_wb(files, name, <<r, i>>), name)
                 /\ image_urls' = [image_urls EXCEPT ![r] = append_url(@, public_url(name))]
                 /\ pc' = [pc EXCEPT ![r] = IF i = Len(req[r].images) THEN "validate" ELSE "save"]
                 /\ UNCHANGED resp
              \/ \* open() raises
                 SaveFails(r, name, files, "open")
              \/ \* copyfileobj raises part-way
                 SaveFails(r, name, open_wb(files, name, <<r, i>>), "copy")
    /\ UNCHANGED <<req, vehicle, store, owner, listResp>>

\* main.py:118-125: Vehicle(...) is built outside any try block.
Validate(r) ==
    /\ pc[r] = "validate"
    /\ LET v == Vehicle(req[r].fields, image_urls[r])
       IN  /\ vehicle' = [vehicle EXCEPT ![r] = v]
           /\ IF v.ok
              THEN /\ pc' = [pc EXCEPT ![r] = "insert"]
                   /\ UNCHANGED resp
              ELSE /\ pc' = [pc EXCEPT ![r] = "done"]
                   /\ resp' = [resp EXCEPT ![r] = Escaped("ValidationError")]
    /\ UNCHANGED <<req, image_urls, opened, uuids, files, store, owner, listResp>>

\* main.py:129: {"id": inserted_id, **vehicle.model_dump()}
created_body(inserted_id, record) == ("id" :> inserted_id) @@ record

\* main.py:127-131.
Insert(r) ==
    /\ pc[r] = "insert"
    /\ pc' = [pc EXCEPT ![r] = "done"]
    /\ \/ LET oid == Len(store) + 1
          IN  /\ store' = Append(store, create_document(vehicle[r].value, oid))
              /\ owner' = Append(owner, r)
              /\ resp' = [resp EXCEPT ![r] = Ok(created_body(str_oid(oid), vehicle[r].value))]
       \/ \* create_document raises
          /\ resp' = [resp EXCEPT ![r] = HTTPException(500, "storage error")]
          /\ UNCHANGED <<store, owner>>
    /\ UNCHANGED <<req, image_urls, vehicle, opened, uuids, files, listResp>>

\* main.py:89: [serialize_vehicle(d) for d in docs]
serialize_all(docs) == [i \in 1..Len(docs) |-> serialize_vehicle(docs[i])]

\* main.py:85-91.
list_vehicles ==
    /\ \/ listResp' = Ok(serialize_all(get_documents(store)))
       \/ \* get_documents raises
          listResp' = HTTPException(500, "storage error")
    /\ UNCHANGED <<pc, req, image_urls, vehicle, resp, opened, uuids, files, store, owner>>

create_vehicle(r) == Begin(r) \/ SaveImage(r) \/ Validate(r) \/ Insert(r)

Next == (\E r \in Requests : create_vehicle(r)) \/ list_vehicles

Spec == Init /\ [][Next]_vars

----------------------------------------------------------------------------
(* Validation alone: one request, without attachments, has reached line 118 *)
(* with any combination of the form fields.                                 *)

InitVehicle ==
    /\ pc = [r \in Requests |-> IF r = 1 THEN "validate" ELSE "idle"]
    /\ \E f \in CandidateListings :
         req = [r \in Requests |-> IF r = 1 THEN [fields |-> f, images |-> <<>>]
                                            ELSE NoRequest]
    /\ image_urls = [r \in Requests |-> <<>>]
    /\ vehicle = [r \in Requests |-> NotBuilt]
    /\ resp = [r \in Requests |-> Pending]
    /\ opened = [r \in Requests |-> <<>>]
    /\ uuids = 0
    /\ files = << >>
    /\ store = <<>>
    /\ owner = <<>>
    /\ listResp = Pending

NextVehicle == \E r \in Requests : Validate(r) \/ Insert(r)

SpecVehicle == InitVehicle /\ [][NextVehicle]_vars

----------------------------------------------------------------------------
(* Serialization alone: the collection holds raw documents of any shape.    *)

RawKeys ==
    {"_id", "make", "model", "year", "price", "description", "image_urls",
     "created_at", "updated_at"}

\* The i-th raw document with every key present.
FullRaw(i) ==
    [k \in RawKeys |->
        CASE k = "_id" -> i
          [] k = "make" -> "Toyota"
          [] k = "model" -> "Corolla"
          [] k = "year" -> 2020
          [] k = "price" -> 1500000
          [] k = "description" -> IF i % 2 = 1 THEN "clean title" ELSE None
          [] k = "image_urls" -> IF i % 2 = 1 THEN <<public_url(<<"u1", ".", "png">>)>> ELSE <<>>
          [] k = "created_at" -> "ts"
          [] k = "updated_at" -> "ts"]

Without(doc, absent) == [k \in DOMAIN doc \ absent |-> doc[k]]

AbsentSets == {S \in SUBSET RawKeys : Cardinality(S) <= MaxAbsent}

\* The collection whose i-th document lacks the keys absent[i].
RawCollection(absent) == [i \in 1..Len(absent) |-> Without(FullRaw(i), absent[i])]

InitSerialize ==
    /\ \E n \in 0..MaxRaw :
         \E absent \in [1..n -> AbsentSets] : store = RawCollection(absent)
    /\ owner = [i \in 1..Len(store) |-> 0]
    /\ pc = [r \in Requests |-> "idle"]
    /\ req = [r \in Requests |-> NoRequest]
    /\ image_urls = [r \in Requests |-> <<>>]
    /\ vehicle = [r \in Requests |-> NotBuilt]
    /\ resp = [r \in Requests |-> Pending]
    /\ opened = [r \in Requests |-> <<>>]
    /\ uuids = 0
    /\ files = << >>
    /\ listResp = Pending

NextSerialize == list_vehicles

SpecSerialize == InitSerialize /\ [][NextSerialize]_vars

----------------------------------------------------------------------------
(* Properties *)

Succeeded(r) == resp[r].kind = "response"
Inserted(r) == \E i \in 1..Len(owner) : owner[i] = r
Validated(r) == pc[r] \in {"insert", "done"} /\ Len(opened[r]) = Len(image_urls[r])

\* The constraints the listing record is documented to satisfy.
DocumentedValid(f) ==
    /\ f.make # ""
    /\ f.model # ""
    /\ f.year >= 1900 /\ f.year <= 2100
    /\ f.price >= 0

\* C1: every document create-listing inserted has non-empty make and model,
\* 1900 <= year <= 2100 and price >= 0, and a request reaches the insert only
\* after its fields passed validation.
C1_PersistedOnlyIfValid ==
    /\ \A i \in 1..Len(store) : owner[i] # 0 => DocumentedValid(store[i])
    /\ \A r \in Requests :
         (pc[r] = "insert" \/ Inserted(r)) =>
             vehicle[r].ok /\ DocumentedValid(req[r].fields)

StructuredError(x) == x.kind = "HTTPException" /\ x.status = 500 /\ x.detail # ""

\* C2: every finished create-listing request and every list-listings call ends
\* with a response or with a structured error (HTTP 500 with a detail); a
\* request whose fields fail validation ends with the structured error.
C2_FailuresBecomeErrorResponses ==
    /\ \A r \in Requests :
         pc[r] = "done" => Succeeded(r) \/ StructuredError(resp[r])
    /\ \A r \in Requests :
         (pc[r] = "done" /\ Validated(r) /\ ~vehicle[r].ok) => StructuredError(resp[r])
    /\ listResp.kind \in {"pending", "response"} \/ StructuredError(listResp)

\* C3: validation fails whenever make or model is the empty text, and no
\* request with an empty make or model inserts a document.
C3_EmptyMakeOrModelRejected ==
    \A r \in Requests :
        (req[r].fields.make = "" \/ req[r].fields.model = "") =>
            /\ Validated(r) => ~vehicle[r].ok
            /\ ~Inserted(r)

\* C4: for a candidate with non-empty make and model, validation succeeds
\* exactly when 1900 <= year <= 2100 and price >= 0 (bounds inclusive).
C4_ValidationBoundaries ==
    \A r \in Requests :
        (Validated(r) /\ req[r].fields.make # "" /\ req[r].fields.model # "") =>
            (vehicle[r].ok <=>
                (/\ req[r].fields.year >= 1900
                 /\ req[r].fields.year <= 2100
                 /\ req[r].fields.price >= 0))

C4_Witness ==
    \E r \in Requests :
        /\ Validated(r) /\ vehicle[r].ok
        /\ req[r].fields.make # "" /\ req[r].fields.model # ""
        /\ req[r].fields.year = 2100 /\ req[r].fields.price = 0

\* Entry e of a listing is the record request r created.
EntryOf(r, e) ==
    /\ e.id = resp[r].body.id
    /\ e.id # "" /\ e.id # None
    /\ e.make = req[r].fields.make
    /\ e.model = req[r].fields.model
    /\ e.year = req[r].fields.year
    /\ e.price = req[r].fields.price
    /\ e.description = req[r].fields.description
    /\ e.image_urls = resp[r].body.image_urls
    /\ req[r].images = <<>> => e.image_urls = <<>>

RoundTrip ==
    listResp.kind = "response" =>
        LET body == listResp.body
        IN  /\ Len(body) = Cardinality({r \in Requests : Succeeded(r)})
            /\ \A r \in Requests :
                 Succeeded(r) =>
                     /\ Cardinality({i \in 1..Len(body) : body[i].id = resp[r].body.id}) = 1
                     /\ \A i \in 1..Len(body) :
                          body[i].id = resp[r].body.id => EntryOf(r, body[i])
            /\ \A i \in 1..Len(body) :
                 \E r \in Requests : Succeeded(r) /\ body[i].id = resp[r].body.id

\* C5: whenever list-listings answers, its result has exactly one entry per
\* successful create so far and none for a failed one; the entry of a create
\* carries the submitted make, model, year, price and description, the id the
\* create returned (a non-empty text) and the create's image_urls, which is
\* empty when no image was attached.
C5_RoundTrip == [][listResp' # listResp => RoundTrip']_vars

C5_Witness ==
    /\ listResp.kind = "response"
    /\ Len(listResp.body) = 1
    /\ \E r \in Requests :
         /\ Succeeded(r)
         /\ req[r].images = <<>>
         /\ req[r].fields = Listing("Toyota", "Corolla", 2020, 1500000, "clean title")
         /\ EntryOf(r, listResp.body[1])
         /\ \A q \in Requests \ {r} : pc[q] = "done" /\ ~Succeeded(q)

\* C6: a successful create with n attachments returns and stores image_urls
\* of length n whose i-th entry is "/uploads/<name>" of the file that holds
\* the i-th attachment.
C6_ImageUrlsInUploadOrder ==
    \A r \in Requests :
        Succeeded(r) =>
            LET urls == resp[r].body.image_urls
            IN  /\ Len(urls) = Len(req[r].images)
                /\ \A d \in 1..Len(store) : owner[d] = r => store[d].image_urls = urls
                /\ \A i \in 1..Len(urls) :
                     \E name \in DOMAIN files :
                         /\ urls[i] = <<"/uploads/">> \o name
                         /\ files[name].content = <<r, i>>

C6_Witness ==
    \E r \in Requests :
        /\ Succeeded(r)
        /\ Len(req[r].images) = 2
        /\ req[r].images[1] # req[r].images[2]
        /\ Len(resp[r].body.image_urls) = 2

\* The extension of a client file name: the suffix from its last dot, when
\* no separator follows that dot and the dot does not only follow dots in
\* its path component.
IsClientExt(fn, d) ==
    /\ fn[d] = "."
    /\ \A j \in (d + 1)..Len(fn) : fn[j] \notin {".", "/"}
    /\ \E k \in 1..(d - 1) :
         /\ fn[k] # "."
         /\ \A m \in k..d : fn[m] # "/"

ExpectedExt(fn) ==
    IF \E d \in 1..Len(fn) : IsClientExt(fn, d)
    THEN LET d == CHOOSE d \in 1..Len(fn) : IsClientExt(fn, d)
         IN  SubSeq(fn, d, Len(fn))
    ELSE <<".", "jpg">>

Opens == {<<r, i>> : r \in Requests, i \in 1..MaxImages}
Opened(o) == o[2] <= Len(opened[o[1]])

\* C7: under any interleaving, no two attachments are written under the same
\* name, no file of the uploads directory is opened twice, and a generated
\* name is a token followed by the client file's extension, or by ".jpg"
\* when it has none.
C7_FreshNames ==
    /\ \A o1 \in Opens, o2 \in Opens :
         (Opened(o1) /\ Opened(o2) /\ o1 # o2) =>
             opened[o1[1]][o1[2]] # opened[o2[1]][o2[2]]
    /\ \A name \in DOMAIN files : files[name].opens = 1
    /\ \A o \in Opens :
         Opened(o) =>
             LET name == opened[o[1]][o[2]]
             IN  /\ Len(name) >= 2
                 /\ name[1] \notin {".", "/"}
                 /\ Tail(name) = ExpectedExt(req[o[1]].images[o[2]])

C7_Witness ==
    /\ \A r \in Requests : pc[r] = "save" /\ Len(opened[r]) = 1
    /\ \A r \in Requests : req[r].images[1] = <<"a", ".", "png">>
    /\ \A r \in Requests : Tail(opened[r][1]) = <<".", "png">>
    /\ Cardinality(DOMAIN files) = NumRequests

SaveFailed(r) ==
    /\ resp[r].kind = "HTTPException"
    /\ resp[r].detail \in {"Failed to save image: open", "Failed to save image: copy"}

\* C8: when the write of the k-th attachment fails, the request is over with
\* a 500 response: no later attachment is written, no validation and no
\* insert happen, and the files of attachments 1..k-1 stay in place.
C8_AbortOnWriteFailure ==
    \A r \in Requests :
        SaveFailed(r) =>
            LET k == Len(image_urls[r]) + 1
            IN  /\ pc[r] = "done"
                /\ resp[r].status = 500
                /\ k <= Len(req[r].images)
                /\ Len(opened[r]) = k
                /\ \A name \in DOMAIN files :
                     files[name].content[1] = r => files[name].content[2] <= k
                /\ vehicle[r] = NotBuilt
                /\ ~Inserted(r)
                /\ \A j \in 1..(k - 1) :
                     /\ opened[r][j] \in DOMAIN files
                     /\ files[opened[r][j]].status = "full"
                     /\ files[opened[r][j]].content = <<r, j>>

C8_Witness ==
    \E r \in Requests :
        /\ SaveFailed(r)
        /\ Len(req[r].images) = 2
        /\ Len(image_urls[r]) = 1
        /\ opened[r][1] \in DOMAIN files

SerializedKeys ==
    {"id", "make", "model", "year", "price", "description", "image_urls", "created_at"}

\* C9: list-listings returns one entry per raw document, in store order, each
\* with exactly the keys id, make, model, year, price, description,
\* image_urls, created_at: id the text form of the identifier or null when
\* absent, image_urls empty when absent, the rest passed through, null when
\* absent; an empty store gives an empty result.
C9_Serialization ==
    listResp.kind = "response" =>
        /\ Len(listResp.body) = Len(store)
        /\ \A i \in 1..Len(store) :
             LET d == store[i]
                 e == listResp.body[i]
             IN  /\ DOMAIN e = SerializedKeys
                 /\ IF "_id" \in DOMAIN d THEN e.id = "oid" \o ToString(d["_id"])
                                          ELSE e.id = None
                 /\ IF "image_urls" \in DOMAIN d THEN e.image_urls = d["image_urls"]
                                                 ELSE e.image_urls = <<>>
                 /\ \A k \in {"make", "model", "year", "price", "description", "created_at"} :
                      IF k \in DOMAIN d THEN e[k] = d[k] ELSE e[k] = None

C9_Witness ==
    /\ listResp.kind = "response"
    /\ Len(listResp.body) = 2
    /\ "_id" \notin DOMAIN store[1] /\ listResp.body[1].id = None
    /\ "updated_at" \in DOMAIN store[1]
    /\ "image_urls" \notin DOMAIN store[2] /\ listResp.body[2].image_urls = <<>>
    /\ listResp.body[2].id = "oid2"

\* C10: every path in the image_urls of a document create-listing inserted
\* names a fully written file of the uploads directory.
C10_ImagePathsExist ==
    \A d \in 1..Len(store) :
        owner[d] # 0 =>
            \A j \in 1..Len(store[d].image_urls) :
                \E name \in DOMAIN files :
                    /\ store[d].image_urls[j] = <<"/uploads/">> \o name
                    /\ files[name].status = "full"

\* A document with two images, beside a file that no document refers to.
C10_Witness ==
    /\ \E d \in 1..Len(store) : owner[d] # 0 /\ Len(store[d].image_urls) = 2
    /\ \E name \in DOMAIN files :
         \A d \in 1..Len(store) :
             \A j \in 1..Len(store[d].image_urls) :
                 store[d].image_urls[j] # <<"/uploads/">> \o name
    /\ \E r \in Requests : SaveFailed(r)

====
